---- MODULE Spec2Model ----
(***************************************************************************)
(* Timetable utilities of indico/modules/events/timetable/util.py.         *)
(*                                                                         *)
(* Instants are minutes since 00:00 UTC of day 0.  A timezone is its UTC   *)
(* offset in minutes; a local date is the number of the local day.  An     *)
(* optional value (Python None or a value) is a sequence of length 0 or 1. *)
(***************************************************************************)
EXTENDS Integers, Sequences, FiniteSets, TLC

VARIABLES event, entries, prev, call, ret, nshift, db

vars == <<event, entries, prev, call, ret, nshift, db>>

(***************************************************************************)
(* Bounds of the model.                                                    *)
(***************************************************************************)
\* number of local days the modelled events may span
MaxDay == 2
\* cap on the number of shift_following_entries calls in one behaviour
MaxShifts == 1

(***************************************************************************)
(* Program constants.                                                      *)
(***************************************************************************)
MinutesPerDay == 1440
MinutesPerHour == 60
\* .replace(hour=8, minute=0)
EarliestHour == 8

None == <<>>
Some(v) == <<v>>

Types == {"SESSION_BLOCK", "CONTRIBUTION", "BREAK"}

EventObj == [kind |-> "Event", id |-> 0]
BlockObj(i) == [kind |-> "SessionBlock", id |-> i]
OtherObj == [kind |-> "Other", id |-> 0]

(***************************************************************************)
(* Date and time helpers.                                                  *)
(***************************************************************************)
\* dt.astimezone(tz).date()
local_date(dt, tz) == (dt + tz) \div MinutesPerDay

\* dt.date() of a UTC datetime
utc_date(dt) == dt \div MinutesPerDay

\* get_day_start(day, tzinfo=tz): local midnight of the day, as an instant
get_day_start(day, tz) == day * MinutesPerDay - tz

\* get_day_end(day, tzinfo=tz): the end of the local day, as an instant
get_day_end(day, tz) == (day + 1) * MinutesPerDay - tz

\* TimetableEntry.end_dt: start_dt + duration
end_dt(e) == e.start_dt + e.duration

Max(S) == CHOOSE x \in S : \A y \in S : y <= x

(***************************************************************************)
(* find_latest_entry_end_dt                                                *)
(***************************************************************************)
\* event_day_entries without the parent_id filter
event_day_entries_nested(day) ==
    {i \in DOMAIN entries : local_date(entries[i].start_dt, event.tz) = day}

\* obj.timetable_entries.filter(parent_id IS NULL, local start date == day)
event_day_entries(day) ==
    {i \in DOMAIN entries : /\ entries[i].parent = 0
                            /\ local_date(entries[i].start_dt, event.tz) = day}

\* obj.timetable_entry.children
children(i) == {j \in DOMAIN entries : entries[j].parent = i}

\* max(entries, key=attrgetter('end_dt')).end_dt if entries else None
latest_end(S) == IF S = {} THEN None ELSE Some(Max({end_dt(entries[i]) : i \in S}))

\* what a call gave back: the exception raised, or the returned value; none
\* tells a returned None from a returned list
Ok(v) == [status |-> "ok", none |-> (v = None), val |-> v]
OkList(l) == [status |-> "ok", none |-> FALSE, val |-> l]
Raise(err) == [status |-> err, none |-> TRUE, val |-> None]

find_latest_entry_end_dt(obj, day) ==
    IF obj.kind = "Event"
    THEN IF day = None
         THEN Raise("ValueError")
         ELSE IF ~(/\ local_date(event.start_dt, event.tz) <= day[1]
                   /\ day[1] <= local_date(event.end_dt, event.tz))
         THEN Raise("ValueError")
         ELSE Ok(latest_end(event_day_entries(day[1])))
    ELSE IF obj.kind = "SessionBlock"
    THEN IF day # None
         THEN Raise("ValueError")
         ELSE Ok(latest_end(children(obj.id)))
    ELSE Raise("TypeError")

(***************************************************************************)
(* find_next_start_dt                                                      *)
(***************************************************************************)
earliest_dt(obj, day) ==
    IF obj.kind = "Event"
    THEN IF local_date(event.start_dt, event.tz) = day
         THEN event.start_dt
         ELSE get_day_start(day, event.tz) + EarliestHour * MinutesPerHour
    ELSE entries[obj.id].start_dt

latest_dt(obj, day) ==
    IF obj.kind = "Event"
    THEN IF utc_date(event.start_dt) = day
         THEN event.end_dt
         ELSE get_day_end(day, event.tz)
    ELSE end_dt(entries[obj.id])

\* fit_duration without the force branch
fit_duration_no_force(duration, obj, day, force, earliest, latest) ==
    IF duration > latest - earliest
    THEN Ok(None)
    ELSE LET found == find_latest_entry_end_dt(obj, day)
             start == IF found.val # None THEN found.val[1] ELSE earliest
         IN  IF start + duration > latest
             THEN Ok(Some(latest - duration))
             ELSE Ok(Some(start))

\* fit_duration without the right-alignment of lines 132-133
fit_duration_no_align(duration, obj, day, force, earliest, latest) ==
    IF duration > latest - earliest
    THEN IF force THEN Ok(Some(earliest)) ELSE Ok(None)
    ELSE LET found == find_latest_entry_end_dt(obj, day)
         IN  Ok(Some(IF found.val # None THEN found.val[1] ELSE earliest))

\* lines 127-134, once the bounds are known
fit_duration(duration, obj, day, force, earliest, latest) ==
    IF duration > latest - earliest
    THEN IF force THEN Ok(Some(earliest)) ELSE Ok(None)
    ELSE LET found == find_latest_entry_end_dt(obj, day)
             start == IF found.val # None THEN found.val[1] ELSE earliest
         IN  IF found.status # "ok"
             THEN found
             ELSE IF start + duration > latest
             THEN Ok(Some(latest - duration))
             ELSE Ok(Some(start))

\* find_next_start_dt with a day check that has no upper bound
find_next_start_dt_open_range(duration, obj, day, force) ==
    IF obj.kind = "Event"
    THEN IF day = None
         THEN Raise("ValueError")
         ELSE IF ~(local_date(event.start_dt, event.tz) <= day[1])
         THEN Raise("ValueError")
         ELSE fit_duration(duration, obj, day, force,
                           earliest_dt(obj, day[1]), latest_dt(obj, day[1]))
    ELSE IF obj.kind = "SessionBlock"
    THEN IF day # None
         THEN Raise("ValueError")
         ELSE fit_duration(duration, obj, day, force,
                           earliest_dt(obj, 0), latest_dt(obj, 0))
    ELSE Raise("TypeError")

find_next_start_dt(duration, obj, day, force) ==
    IF obj.kind = "Event"
    THEN IF day = None
         THEN Raise("ValueError")
         ELSE IF ~(/\ local_date(event.start_dt, event.tz) <= day[1]
                   /\ day[1] <= local_date(event.end_dt, event.tz))
         THEN Raise("ValueError")
         ELSE fit_duration(duration, obj, day, force,
                           earliest_dt(obj, day[1]), latest_dt(obj, day[1]))
    ELSE IF obj.kind = "SessionBlock"
    THEN IF day # None
         THEN Raise("ValueError")
         ELSE fit_duration(duration, obj, day, force,
                           earliest_dt(obj, 0), latest_dt(obj, 0))
    ELSE Raise("TypeError")

(***************************************************************************)
(* shift_following_entries                                                 *)
(***************************************************************************)
\* entry.siblings_query: the other entries of the same parent/container
siblings_query(i) ==
    {j \in DOMAIN entries \ {i} : entries[j].parent = entries[i].parent}

\* following with a strict comparison
following_strict(i) ==
    {j \in siblings_query(i) : entries[j].start_dt > end_dt(entries[i])}

\* .filter(TimetableEntry.start_dt >= entry.end_dt)
following(i) ==
    {j \in siblings_query(i) : entries[j].start_dt >= end_dt(entries[i])}

\* .filter(type == SESSION_BLOCK, session_block.has(session_id=session_.id))
session_blocks_of(S, session_) ==
    {j \in S : /\ entries[j].type = "SESSION_BLOCK"
               /\ entries[j].session = session_}

\* lines 304-308: the filtered query of lines 306-307 is not assigned, so
\* query.all() runs the query of line 304
shift_query(i, session_) ==
    LET query == following(i)
        unassigned == IF session_ # 0 /\ entries[i].parent = 0
                      THEN session_blocks_of(query, session_)
                      ELSE query
    IN  query

\* sibling.move(start_dt): the entry starts at start_dt and keeps its duration
move(e, start_dt) == [e EXCEPT !.start_dt = start_dt]

\* lines 309-312: [] when nothing matched, otherwise the function ends
\* without a return statement
shift_return(S) == IF S = {} THEN OkList(<<>>) ELSE Ok(None)

shifted_entries(i, shift, session_) ==
    [j \in DOMAIN entries |->
        IF j \in shift_query(i, session_)
        THEN move(entries[j], entries[j].start_dt + shift)
        ELSE entries[j]]

(***************************************************************************)
(* The calls.                                                              *)
(***************************************************************************)
Call(op, obj, day, duration, force, entry, shift, session_) ==
    [op |-> op, obj |-> obj, day |-> day, duration |-> duration, force |-> force,
     entry |-> entry, shift |-> shift, session |-> session_]

NoCall == Call("none", OtherObj, None, 0, FALSE, 0, 0, 0)

\* the SessionBlock objects: one per SESSION_BLOCK entry
Blocks == {i \in DOMAIN entries : entries[i].type = "SESSION_BLOCK"}

Containers == {EventObj, OtherObj} \cup {BlockObj(i) : i \in Blocks}

\* the day arguments tried: none, and the local dates around the events
Days == {None} \cup {Some(d) : d \in -1 .. MaxDay}

Durations == {0, 60, 10 * MinutesPerHour, 2 * MinutesPerDay}

Shifts == {-30, 30}

SessionIds == {1, 2}

FindLatestEntryEndDt ==
    \E obj \in Containers, day \in Days :
        /\ call' = Call("find_latest_entry_end_dt", obj, day, 0, FALSE, 0, 0, 0)
        /\ ret' = find_latest_entry_end_dt(obj, day)
        /\ prev' = entries
        /\ UNCHANGED <<event, entries, nshift, db>>

FindNextStartDt ==
    \E obj \in Containers, day \in Days, duration \in Durations, force \in BOOLEAN :
        /\ call' = Call("find_next_start_dt", obj, day, duration, force, 0, 0, 0)
        /\ ret' = find_next_start_dt(duration, obj, day, force)
        /\ prev' = entries
        /\ UNCHANGED <<event, entries, nshift, db>>

ShiftFollowingEntries ==
    \E i \in DOMAIN entries, shift \in Shifts, session_ \in {0} \cup SessionIds :
        /\ nshift < MaxShifts
        /\ nshift' = nshift + 1
        /\ call' = Call("shift_following_entries", EventObj, None, 0, FALSE, i, shift, session_)
        /\ ret' = shift_return(shift_query(i, session_))
        /\ entries' = shifted_entries(i, shift, session_)
        /\ prev' = entries
        /\ UNCHANGED <<event, db>>

\* the events of the categories and their entries: none outside
\* get_category_timetable
NoDb == [events |-> <<>>, tt |-> <<>>]

(***************************************************************************)
(* Initial states: an event and its timetable, consistent with the data    *)
(* model (top-level entries inside the event, children inside their block).*)
(***************************************************************************)
Entry(type, parent, start_dt, duration, session_) ==
    [type |-> type, parent |-> parent, start_dt |-> start_dt, duration |-> duration,
     session |-> session_, title |-> 0, access |-> TRUE]

Within(e, lo, hi) == lo <= e.start_dt /\ end_dt(e) <= hi

EventClock == {9 * MinutesPerHour, 17 * MinutesPerHour, 23 * MinutesPerHour}
EventTimes == {d * MinutesPerDay + c : d \in 0 .. MaxDay - 1, c \in EventClock}
TzOffsets == {0, 120}
Events == {ev \in [start_dt : EventTimes, end_dt : EventTimes, tz : TzOffsets] :
              ev.start_dt <= ev.end_dt}

EntryClock == {7 * MinutesPerHour, 16 * MinutesPerHour + 30}
EntryTimes == {d * MinutesPerDay + c : d \in 0 .. MaxDay - 1, c \in EntryClock}

\* entry 1: a top-level contribution; entry 2: a top-level session block;
\* entry 3: a break inside the block
FitTop(ev) ==
    {<<>>} \cup {1 :> e : e \in {x \in {Entry("CONTRIBUTION", 0, t, 30, 0) : t \in EntryTimes} :
                                  Within(x, ev.start_dt, ev.end_dt)}}
FitBlock(ev) ==
    {<<>>} \cup {2 :> e : e \in {x \in {Entry("SESSION_BLOCK", 0, 10 * MinutesPerHour, 60, 1)} :
                                  Within(x, ev.start_dt, ev.end_dt)}}
FitChild(b) ==
    {<<>>} \cup (IF 2 \in DOMAIN b
                 THEN {3 :> Entry("BREAK", 2, b[2].start_dt + o, 30, 0) : o \in {0, 30}}
                 ELSE {})
FitEntries(ev) ==
    UNION {{a @@ b @@ c : a \in FitTop(ev), c \in FitChild(b)} : b \in FitBlock(ev)}

Init ==
    /\ event \in Events
    /\ entries \in FitEntries(event)
    /\ prev = entries
    /\ call = NoCall
    /\ ret = Raise("none")
    /\ nshift = 0
    /\ db = NoDb

Next == FindLatestEntryEndDt \/ FindNextStartDt

Spec == Init /\ [][Next]_vars

(***************************************************************************)
(* The timetable of one two-day event in UTC+2, with entries of every type, *)
(* for shift_following_entries.  An entry at 23:00 UTC starts on the next  *)
(* local day.                                                              *)
(***************************************************************************)
ShiftEvent == [start_dt |-> 9 * MinutesPerHour,
               end_dt |-> MinutesPerDay + 17 * MinutesPerHour,
               tz |-> 120]

ShiftClock == {10 * MinutesPerHour, 10 * MinutesPerHour + 30, 23 * MinutesPerHour}

\* blocks last an hour, contributions half an hour, breaks no time at all
TypeDuration(type) ==
    IF type = "SESSION_BLOCK" THEN 60 ELSE IF type = "CONTRIBUTION" THEN 30 ELSE 0

TopEntries(types) ==
    {Entry(type, 0, t, TypeDuration(type), s) :
        type \in types \ {"SESSION_BLOCK"}, t \in ShiftClock, s \in {0}}
    \cup {Entry(type, 0, t, TypeDuration(type), s) :
        type \in types \cap {"SESSION_BLOCK"}, t \in ShiftClock, s \in SessionIds}

ChildEntries(types, p, b) ==
    IF b.type # "SESSION_BLOCK"
    THEN {}
    ELSE {x \in {Entry(type, p, t, TypeDuration(type), 0) :
                    type \in types \ {"SESSION_BLOCK"}, t \in ShiftClock} :
             Within(x, b.start_dt, end_dt(b))}

\* entry 1 is top-level; entries 2 and 3 are top-level or inside entry 1;
\* entry 4, if there, is a top-level break at 10:00
ShiftEntries ==
    UNION {{(1 :> a) @@ (2 :> b) @@ (3 :> c) @@ d :
               b \in TopEntries(Types) \cup ChildEntries(Types, 1, a),
               c \in TopEntries({"CONTRIBUTION"}) \cup ChildEntries({"CONTRIBUTION"}, 1, a),
               d \in {<<>>, 4 :> Entry("BREAK", 0, 10 * MinutesPerHour, 0, 0)}} :
           a \in TopEntries(Types)}

InitShift ==
    /\ event = ShiftEvent
    /\ entries \in ShiftEntries
    /\ prev = entries
    /\ call = NoCall
    /\ ret = Raise("none")
    /\ nshift = 0
    /\ db = NoDb

NextShift == ShiftFollowingEntries \/ FindLatestEntryEndDt

SpecShift == InitShift /\ [][NextShift]_vars

(***************************************************************************)
(* get_nested_timetable                                                    *)
(*                                                                         *)
(* Strings are ordered as Python orders them; the model writes a session   *)
(* code or a title as a number, 0 being the empty string.                  *)
(***************************************************************************)
\* session.code of the sessions: session 1 has no code
session_code(s) == IF s = 1 THEN 0 ELSE s - 1

\* str(session.friendly_id)
str_friendly_id(s) == IF s = 1 THEN "1" ELSE IF s = 2 THEN "2" ELSE "0"

\* date.isoformat() of a local date
isoformat(d) ==
    IF d = 0 THEN "2024-01-01" ELSE IF d = 1 THEN "2024-01-02" ELSE "2024-01-03"

\* _entry_title_key
entry_title_key(e) ==
    IF e.type = "SESSION_BLOCK" THEN <<session_code(e.session), e.title>> ELSE <<0, e.title>>

\* tuple comparison a < b
RECURSIVE tuple_less(_, _)
tuple_less(a, b) ==
    IF a = <<>> THEN b # <<>>
    ELSE IF b = <<>> THEN FALSE
    ELSE IF a[1] # b[1] THEN a[1] < b[1]
    ELSE tuple_less(Tail(a), Tail(b))

\* x goes before y in the sort
sorts_before(x, y, key, reverse) ==
    IF reverse THEN tuple_less(key[y], key[x]) ELSE tuple_less(key[x], key[y])

\* list.sort(key=..., reverse=...): a stable sort; with reverse the greater
\* keys come first and equal keys keep their order
RECURSIVE list_sort(_, _, _)
list_sort(s, key, reverse) ==
    IF s = <<>> THEN <<>>
    ELSE LET x == s[Len(s)]
             t == list_sort(SubSeq(s, 1, Len(s) - 1), key, reverse)
             p == Cardinality({j \in 1 .. Len(t) : ~sorts_before(x, t[j], key, reverse)})
         IN  SubSeq(t, 1, p) \o <<x>> \o SubSeq(t, p + 1, Len(t))

\* nested_keeps with the access check made for breaks as well
nested_keeps_break_access(e, show_date, show_session, detail_level) ==
    IF show_date # "all" /\ isoformat(local_date(e.start_dt, event.tz)) # show_date
    THEN FALSE
    ELSE IF /\ e.type = "CONTRIBUTION"
            /\ (detail_level \notin {"contribution", "all"} \/ show_session # "all")
    THEN FALSE
    ELSE IF /\ e.type = "SESSION_BLOCK" /\ show_session # "all"
            /\ str_friendly_id(e.session) # show_session
    THEN FALSE
    ELSE e.access

\* lines 394-406: the entry is appended to the result
nested_keeps(e, show_date, show_session, detail_level) ==
    IF show_date # "all" /\ isoformat(local_date(e.start_dt, event.tz)) # show_date
    THEN FALSE
    ELSE IF /\ e.type = "CONTRIBUTION"
            /\ (detail_level \notin {"contribution", "all"} \/ show_session # "all")
    THEN FALSE
    ELSE IF /\ e.type = "SESSION_BLOCK" /\ show_session # "all"
            /\ str_friendly_id(e.session) # show_session
    THEN FALSE
    ELSE IF e.type = "BREAK" THEN TRUE
    ELSE e.access

\* event.timetable_entries.filter_by(parent=None), in the order of the rows
top_level_rows(rows) == SelectSeq(rows, LAMBDA i : entries[i].parent = 0)

\* sort_by_end_dt without reverse=True
sort_by_end_dt_ascending(s) ==
    list_sort(s, [i \in DOMAIN entries |-> <<end_dt(entries[i])>>], FALSE)

\* line 408
sort_by_end_dt(s) == list_sort(s, [i \in DOMAIN entries |-> <<end_dt(entries[i])>>], TRUE)

\* line 409
sort_by_start_and_title(s) ==
    list_sort(s, [i \in DOMAIN entries |->
                    <<entries[i].start_dt>> \o entry_title_key(entries[i])], FALSE)

get_nested_timetable(rows, show_date, show_session, detail_level) ==
    LET kept == SelectSeq(top_level_rows(rows),
                          LAMBDA i : nested_keeps(entries[i], show_date, show_session,
                                                  detail_level))
    IN  sort_by_start_and_title(sort_by_end_dt(kept))

ShowDates == {"all", "2024-01-02"}
ShowSessions == {"all", "1", "2"}
DetailLevels == {"all", "contribution", "session"}

\* the elements of a set of numbers, ascending
RECURSIVE ascending(_)
ascending(S) ==
    IF S = {} THEN <<>> ELSE LET m == Max(S) IN Append(ascending(S \ {m}), m)

reversed(s) == [k \in 1 .. Len(s) |-> s[Len(s) + 1 - k]]

\* the orders in which the query may give the rows
RowOrders == {ascending(DOMAIN entries), reversed(ascending(DOMAIN entries))}

NestedCall(rows, show_date, show_session, detail_level) ==
    [op |-> "get_nested_timetable", rows |-> rows, show_date |-> show_date,
     show_session |-> show_session, detail_level |-> detail_level]

\* The call reads the timetable and changes nothing: a second call would see
\* what the first one saw, so a behaviour makes one call.
GetNestedTimetable ==
    \E rows \in RowOrders, show_date \in ShowDates, show_session \in ShowSessions,
       detail_level \in DetailLevels :
        /\ call = NoCall
        /\ call' = NestedCall(rows, show_date, show_session, detail_level)
        /\ ret' = OkList(get_nested_timetable(rows, show_date, show_session, detail_level))
        /\ prev' = entries
        /\ UNCHANGED <<event, entries, nshift, db>>

NestedEntry(type, parent, start_dt, duration, session_, title, access) ==
    [type |-> type, parent |-> parent, start_dt |-> start_dt, duration |-> duration,
     session |-> session_, title |-> title, access |-> access]

NestedClock == {10 * MinutesPerHour, 23 * MinutesPerHour}

NestedTop(kinds, titles, accesses) ==
    {NestedEntry(k[1], 0, t, d, k[2], title, a) :
        k \in kinds, t \in NestedClock, d \in {30, 60}, title \in titles, a \in accesses}

NestedChild(b) ==
    {<<>>} \cup (IF b.type = "SESSION_BLOCK" /\ b.duration = 60 /\ b.title = 1
                 THEN {4 :> NestedEntry("CONTRIBUTION", 1, b.start_dt, 30, 0, 1, TRUE)}
                 ELSE {})

AllKinds == {<<"SESSION_BLOCK", 1>>, <<"SESSION_BLOCK", 2>>, <<"CONTRIBUTION", 0>>,
             <<"BREAK", 0>>}

\* entries 1 to 3 are top-level; entry 4, if there, is inside entry 1
NestedEntries ==
    UNION {{(1 :> a) @@ (2 :> b) @@ (3 :> c) @@ d :
               b \in NestedTop(AllKinds \ {<<"BREAK", 0>>}, {1, 2}, {TRUE}),
               c \in NestedTop({<<"CONTRIBUTION", 0>>}, {1}, {TRUE}),
               d \in NestedChild(a)} :
           a \in NestedTop(AllKinds, {1, 2}, BOOLEAN)}

InitNested ==
    /\ event = ShiftEvent
    /\ entries \in NestedEntries
    /\ prev = entries
    /\ call = NoCall
    /\ ret = Raise("none")
    /\ nshift = 0
    /\ db = NoDb

NextNested == GetNestedTimetable

SpecNested == InitNested /\ [][NextNested]_vars

(***************************************************************************)
(* get_category_timetable                                                  *)
(*                                                                         *)
(* db.events[id] is an event: its span, whether it is deleted, whether its *)
(* category chain overlaps categ_ids, whether it is visible from           *)
(* from_categ, and what includible answers for it.  db.tt[i] is a          *)
(* timetable entry and its object: the event, the type, the start, and     *)
(* whether the object (the session of a block, the contribution) is        *)
(* deleted.  Rows come in the order of their ids.                          *)
(***************************************************************************)
\* dates_overlap: lines 39 and 160
dates_overlap(t, day_start, day_end) == t >= day_start /\ t <= day_end

\* Event.happens_between(day_start, day_end): the spans overlap
happens_between(e, day_start, day_end) == e.start_dt <= day_end /\ e.end_dt >= day_start

\* the starts of the entries of an event the outer join of lines 50-52 keeps
joined_starts(id, day_start, day_end) ==
    {db.tt[i].start_dt : i \in {j \in DOMAIN db.tt :
        db.tt[j].event = id /\ dates_overlap(db.tt[j].start_dt, day_start, day_end)}}

\* _query_events, with the filter of line 168 when from_categ is given: the
\* rows (event id, start of an entry in the window or None)
query_events(day_start, day_end, from_categ) ==
    LET found == {id \in DOMAIN db.events :
                     /\ db.events[id].in_categ
                     /\ ~db.events[id].deleted
                     /\ \/ joined_starts(id, day_start, day_end) # {}
                        \/ happens_between(db.events[id], day_start, day_end)
                     /\ from_categ => db.events[id].visible}
    IN  UNION {{<<id, Some(t)>> : t \in joined_starts(id, day_start, day_end)} : id \in found}
        \cup {<<id, None>> : id \in {x \in found : joined_starts(x, day_start, day_end) = {}}}

\* lines 169-173: None for an event without an entry in the window,
\* otherwise the starts of its entries by local date
timetable_items(rows, tz) ==
    [id \in {r[1] : r \in rows} |->
        IF <<id, None>> \in rows
        THEN [none |-> TRUE, days |-> <<>>]
        ELSE LET starts == {r[2][1] : r \in {x \in rows : x[1] = id}}
             IN  [none |-> FALSE,
                  days |-> [d \in {local_date(t, tz) : t \in starts} |->
                              ascending({t \in starts : local_date(t, tz) = d})]]]

\* iterdays(max(start_dt.date(), local_start_dt), min(end_dt.date(), local_end_dt))
event_days(e, start_dt, end_dt_, tz) ==
    LET lo == IF local_date(start_dt, tz) >= local_date(e.start_dt, tz)
              THEN local_date(start_dt, tz) ELSE local_date(e.start_dt, tz)
        hi == IF local_date(end_dt_, tz) <= local_date(e.end_dt, tz)
              THEN local_date(end_dt_, tz) ELSE local_date(e.end_dt, tz)
    IN  lo .. hi

\* lines 187-189: the events of event_ids that includible accepts
included_events(event_ids) == {id \in event_ids : db.events[id].includible}

\* what lines 193-203 append to scheduled_events[d] for one event
scheduled_of(id, d, items, start_dt, end_dt_, tz) ==
    IF items[id].none
    THEN IF d \in event_days(db.events[id], start_dt, end_dt_, tz)
            /\ d = local_date(db.events[id].start_dt, tz)
         THEN <<<<db.events[id].start_dt, id>>>>
         ELSE <<>>
    ELSE IF d \in DOMAIN items[id].days
         THEN <<<<items[id].days[d][1], id>>>>
         ELSE <<>>

\* what line 200 appends to ongoing_events for one event: the event, once
\* for every day of the loop that is not its first day
ongoing_of(id, items, start_dt, end_dt_, tz) ==
    IF items[id].none
    THEN [k \in 1 .. Cardinality({d \in event_days(db.events[id], start_dt, end_dt_, tz) :
                                     d # local_date(db.events[id].start_dt, tz)}) |-> id]
    ELSE <<>>

\* s[1][x] \o s[2][x] \o ...: the lists f gives for the elements of s, joined
RECURSIVE joined(_, _)
joined(s, f) == IF s = <<>> THEN <<>> ELSE f[Head(s)] \o joined(Tail(s), f)

\* the local dates scheduled_events has a key for
scheduled_dates_of(id, items, start_dt, end_dt_, tz) ==
    IF items[id].none
    THEN {d \in event_days(db.events[id], start_dt, end_dt_, tz) :
             d = local_date(db.events[id].start_dt, tz)}
    ELSE DOMAIN items[id].days

scheduled_dates(ids, items, start_dt, end_dt_, tz) ==
    UNION {scheduled_dates_of(id, items, start_dt, end_dt_, tz) : id \in ids}

scheduled_events(ids, items, start_dt, end_dt_, tz) ==
    [d \in scheduled_dates(ids, items, start_dt, end_dt_, tz) |->
        joined(ascending(ids),
               [id \in ids |-> scheduled_of(id, d, items, start_dt, end_dt_, tz)])]

ongoing_events(ids, items, start_dt, end_dt_, tz) ==
    joined(ascending(ids), [id \in ids |-> ongoing_of(id, items, start_dt, end_dt_, tz)])

\* _query_blocks: the blocks of live sessions of the events, starting in the window
query_blocks(event_ids, day_start, day_end) ==
    {i \in DOMAIN db.tt : /\ db.tt[i].type = "SESSION_BLOCK"
                          /\ ~db.tt[i].deleted
                          /\ db.tt[i].event \in event_ids
                          /\ dates_overlap(db.tt[i].start_dt, day_start, day_end)}

\* lines 232-238
query_contributions(event_ids, day_start, day_end) ==
    {i \in DOMAIN db.tt : /\ db.tt[i].type = "CONTRIBUTION"
                          /\ db.tt[i].event \in event_ids
                          /\ dates_overlap(db.tt[i].start_dt, day_start, day_end)
                          /\ ~db.tt[i].deleted}

\* lines 247-250
query_breaks(event_ids, day_start, day_end) ==
    {i \in DOMAIN db.tt : /\ db.tt[i].type = "BREAK"
                          /\ db.tt[i].event \in event_ids
                          /\ dates_overlap(db.tt[i].start_dt, day_start, day_end)}

\* the key of the contributions in the result: lines 242 and 245
contribs_key(grouped) == IF grouped THEN "contribs" ELSE "contributions"

\* the rows a detail level fetches, by the key they are stored under
fetched(event_ids, day_start, day_end, detail_level, grouped) ==
    (IF detail_level # "event"
     THEN [k \in {"blocks"} |-> query_blocks(event_ids, day_start, day_end)]
     ELSE <<>>)
    @@ (IF detail_level = "contribution"
        THEN (contribs_key(grouped) :> query_contributions(event_ids, day_start, day_end))
             @@ ("breaks" :> query_breaks(event_ids, day_start, day_end))
        ELSE <<>>)

\* one bucket of the result: (entry, object) pairs by local start date when
\* grouped, the objects otherwise
bucket(S, tz, grouped) ==
    IF grouped
    THEN [d \in {local_date(db.tt[i].start_dt, tz) : i \in S} |->
             [k \in DOMAIN ascending({i \in S : local_date(db.tt[i].start_dt, tz) = d}) |->
                 LET i == ascending({j \in S : local_date(db.tt[j].start_dt, tz) = d})[k]
                 IN  <<i, i>>]]
    ELSE ascending(S)

\* result[event_id][key]: lines 221-257
details(event_ids, day_start, day_end, detail_level, tz, grouped) ==
    LET rows == fetched(event_ids, day_start, day_end, detail_level, grouped)
        of(id, k) == {i \in rows[k] : db.tt[i].event = id}
        ids == {id \in event_ids : \E k \in DOMAIN rows : of(id, k) # {}}
    IN  [id \in ids |->
            [k \in {x \in DOMAIN rows : of(id, x) # {}} |-> bucket(of(id, k), tz, grouped)]]

get_category_timetable(start_dt, end_dt_, detail_level, tz, from_categ, grouped) ==
    LET day_start == start_dt
        day_end == end_dt_
        items == timetable_items(query_events(day_start, day_end, from_categ), tz)
        event_ids == DOMAIN items
        ids == included_events(event_ids)
    IN  [events |-> IF grouped
                    THEN scheduled_events(ids, items, start_dt, end_dt_, tz)
                    ELSE ascending(ids),
         ongoing_events |-> IF grouped
                            THEN ongoing_events(ids, items, start_dt, end_dt_, tz)
                            ELSE <<>>,
         details |-> details(event_ids, day_start, day_end, detail_level, tz, grouped)]

CategoryCall(start_dt, end_dt_, detail_level, tz, from_categ, grouped) ==
    [op |-> "get_category_timetable", start_dt |-> start_dt, end_dt |-> end_dt_,
     detail_level |-> detail_level, tz |-> tz, from_categ |-> from_categ,
     grouped |-> grouped]

CategoryTz == {0, 120}

\* the search intervals: local day 1, from 00:00 to 23:59, in the display timezone
Windows(tz) == {<<get_day_start(1, tz), get_day_end(1, tz) - 1>>}

CategoryDetailLevels == {"event", "session", "contribution"}

\* The call reads the events and changes nothing, so a behaviour makes one call.
GetCategoryTimetable ==
    \E tz \in CategoryTz, detail_level \in CategoryDetailLevels,
       from_categ \in BOOLEAN, grouped \in BOOLEAN :
        \E w \in Windows(tz) :
            /\ call = NoCall
            /\ call' = CategoryCall(w[1], w[2], detail_level, tz, from_categ, grouped)
            /\ ret' = OkList(get_category_timetable(w[1], w[2], detail_level, tz,
                                                    from_categ, grouped))
            /\ UNCHANGED <<event, entries, prev, nshift, db>>

CategoryTimes == {10 * MinutesPerHour, 23 * MinutesPerHour,
                  MinutesPerDay + 10 * MinutesPerHour,
                  2 * MinutesPerDay + 10 * MinutesPerHour}

CategoryEvent(start_dt, end_dt_, deleted, in_categ, visible, includible) ==
    [start_dt |-> start_dt, end_dt |-> end_dt_, deleted |-> deleted,
     in_categ |-> in_categ, visible |-> visible, includible |-> includible]

CategoryEntry(ev, type, start_dt, deleted) ==
    [event |-> ev, type |-> type, start_dt |-> start_dt, deleted |-> deleted]

\* event 1: any span, visible or not, includible or not
FirstEvents ==
    {CategoryEvent(s, e, FALSE, TRUE, v, i) :
        s \in CategoryTimes, e \in CategoryTimes, v \in BOOLEAN, i \in BOOLEAN}

\* event 2: from day 1 to day 2, deleted or not, of the categories or not
SecondEvents ==
    {CategoryEvent(MinutesPerDay + 10 * MinutesPerHour,
                   2 * MinutesPerDay + 10 * MinutesPerHour, d, c, TRUE, TRUE) :
        d \in BOOLEAN, c \in BOOLEAN}

\* the entries an event may have: they start inside the event; a break is
\* never deleted
EntriesOf(id, e, types, times, deleteds) ==
    {x \in {CategoryEntry(id, type, t, d) : type \in types, t \in times, d \in deleteds} :
        /\ e.start_dt <= x.start_dt /\ x.start_dt <= e.end_dt
        /\ x.type = "BREAK" => ~x.deleted}

Optional(i, S) == {<<>>} \cup {i :> x : x \in S}

CategoryDbs ==
    {[events |-> (1 :> a) @@ (2 :> b), tt |-> x @@ y @@ z] :
        a \in {e \in FirstEvents : e.start_dt <= e.end_dt},
        b \in {e \in SecondEvents : ~(e.deleted /\ ~e.in_categ)},
        x \in UNION {Optional(1, EntriesOf(1, e, Types, CategoryTimes, BOOLEAN)) :
                        e \in FirstEvents},
        y \in UNION {Optional(2, EntriesOf(2, e, Types, CategoryTimes, {FALSE})) :
                        e \in SecondEvents},
        z \in UNION {Optional(3, EntriesOf(1, e, {"CONTRIBUTION"},
                                           {MinutesPerDay + 10 * MinutesPerHour}, {FALSE})) :
                        e \in FirstEvents}}

InitCategory ==
    /\ event = ShiftEvent
    /\ entries = <<>>
    /\ prev = entries
    /\ call = NoCall
    /\ ret = Raise("none")
    /\ nshift = 0
    /\ db \in {d \in CategoryDbs :
                  \A i \in DOMAIN d.tt :
                      /\ d.events[d.tt[i].event].start_dt <= d.tt[i].start_dt
                      /\ d.tt[i].start_dt <= d.events[d.tt[i].event].end_dt}

NextCategory == GetCategoryTimetable

SpecCategory == InitCategory /\ [][NextCategory]_vars

(***************************************************************************)
(* get_time_changes_notifications.  changes is the dict in its iteration   *)
(* order: a sequence of <<object, change>> pairs with distinct objects; a  *)
(* change maps each recorded attribute to its <<old, new>> pair.           *)
(***************************************************************************)
\* format_time(new_time, timezone=tzinfo): the local time of day
format_time(new_time, tzinfo) == (new_time + tzinfo) % MinutesPerDay

\* entry.object
object_of(i) ==
    [kind |-> IF entries[i].type = "SESSION_BLOCK" THEN "SessionBlock"
              ELSE IF entries[i].type = "CONTRIBUTION" THEN "Contribution"
              ELSE "Break",
     id |-> i]

\* skipped without the test on entry.object
skipped_children_only(obj, entry) ==
    /\ entry # None
    /\ obj.kind # "Event"
    /\ obj.id \in children(entry[1])

\* the two continue statements
skipped(obj, entry) ==
    /\ entry # None
    /\ \/ object_of(entry[1]) = obj
       \/ /\ obj.kind # "Event"
          /\ obj.id \in children(entry[1])

Message(msg, new_time) == Ok(Some([msg |-> msg, new_time |-> new_time]))

\* change_message with a session block treated as any other object
change_message_event_only(obj, change) ==
    IF obj.kind = "Event"
    THEN IF "start_dt" \in DOMAIN change
         THEN Message("Event start time changed to {}", change["start_dt"][2])
         ELSE IF "end_dt" \in DOMAIN change
         THEN Message("Event end time changed to {}", change["end_dt"][2])
         ELSE Raise("ValueError")
    ELSE Ok(None)

\* msg and new_time for one changed object: none for an object that is
\* neither an Event nor a SessionBlock
change_message(obj, change) ==
    IF obj.kind = "Event"
    THEN IF "start_dt" \in DOMAIN change
         THEN Message("Event start time changed to {}", change["start_dt"][2])
         ELSE IF "end_dt" \in DOMAIN change
         THEN Message("Event end time changed to {}", change["end_dt"][2])
         ELSE Raise("ValueError")
    ELSE IF obj.kind = "SessionBlock"
    THEN IF "start_dt" \in DOMAIN change
         THEN Message("Session block start time changed to {}", change["start_dt"][2])
         ELSE IF "end_dt" \in DOMAIN change
         THEN Message("Session block end time changed to {}", change["end_dt"][2])
         ELSE Raise("ValueError")
    ELSE Ok(None)

\* the loop over changes.items(), notifications being the list so far
RECURSIVE notify_loop(_, _, _, _)
notify_loop(changes, tzinfo, entry, notifications) ==
    IF changes = <<>>
    THEN OkList(notifications)
    ELSE LET obj == Head(changes)[1]
             change == Head(changes)[2]
             found == change_message(obj, change)
         IN  IF skipped(obj, entry)
             THEN notify_loop(Tail(changes), tzinfo, entry, notifications)
             ELSE IF found.status # "ok"
             THEN found
             ELSE IF found.val = None
             THEN notify_loop(Tail(changes), tzinfo, entry, notifications)
             ELSE notify_loop(Tail(changes), tzinfo, entry,
                              Append(notifications,
                                     [msg |-> found.val[1].msg,
                                      time |-> format_time(found.val[1].new_time, tzinfo)]))

get_time_changes_notifications(changes, tzinfo, entry) ==
    notify_loop(changes, tzinfo, entry, <<>>)

\* cap on the number of changed objects in one call
MaxChanges == 3

\* the objects that may have changed: the event and the object of each entry
ChangedObjects == {EventObj} \cup {object_of(i) : i \in DOMAIN entries}

\* the deltas recorded for one object: start_dt, end_dt, both or neither
StartDelta == <<10 * MinutesPerHour, 10 * MinutesPerHour + 30>>
EndDelta == <<11 * MinutesPerHour, 23 * MinutesPerHour + 30>>
ChangeRecords ==
    {[k \in keys |-> IF k = "start_dt" THEN StartDelta ELSE EndDelta] :
        keys \in SUBSET {"start_dt", "end_dt"}}

\* the dicts of at most n changed objects, in every iteration order
RECURSIVE change_lists(_)
change_lists(n) ==
    IF n = 0
    THEN {<<>>}
    ELSE LET shorter == change_lists(n - 1)
         IN  shorter \cup
             {l \in {Append(s, <<o, c>>) : s \in shorter, o \in ChangedObjects,
                                           c \in ChangeRecords} :
                 /\ Len(l) = n
                 /\ \A k \in 1 .. n - 1 : l[k][1] # l[n][1]}

GetTimeChangesNotifications ==
    /\ call = NoCall
    /\ \E changes \in change_lists(MaxChanges), tzinfo \in TzOffsets,
          entry \in {None} \cup {Some(i) : i \in DOMAIN entries} :
        /\ call' = [op |-> "get_time_changes_notifications", changes |-> changes,
                    tzinfo |-> tzinfo, entry |-> entry]
        /\ ret' = get_time_changes_notifications(changes, tzinfo, entry)
        /\ prev' = entries
        /\ UNCHANGED <<event, entries, nshift, db>>

\* entry 1 is a top-level block, entry 2 a contribution inside it, entry 3 a
\* break at the top level or inside entry 1, entry 4 another top-level block
NotifyEntries ==
    {(1 :> Entry("SESSION_BLOCK", 0, 10 * MinutesPerHour, 60, 1))
        @@ (2 :> Entry("CONTRIBUTION", 1, 10 * MinutesPerHour, 30, 0))
        @@ (3 :> Entry("BREAK", p, 10 * MinutesPerHour + 30, 0, 0))
        @@ (4 :> Entry("SESSION_BLOCK", 0, 11 * MinutesPerHour, 60, 2)) : p \in {0, 1}}

InitNotify ==
    /\ event = ShiftEvent
    /\ entries \in NotifyEntries
    /\ prev = entries
    /\ call = NoCall
    /\ ret = Raise("none")
    /\ nshift = 0
    /\ db = NoDb

NextNotify == GetTimeChangesNotifications

SpecNotify == InitNotify /\ [][NextNotify]_vars

(***************************************************************************)
(* Properties of find_next_start_dt and find_latest_entry_end_dt.          *)
(***************************************************************************)
FirstDay == local_date(event.start_dt, event.tz)
LastDay == local_date(event.end_dt, event.tz)

\* the container and the day are the ones the functions accept
ValidCall ==
    \/ call.obj.kind = "Event" /\ call.day # None
          /\ FirstDay <= call.day[1] /\ call.day[1] <= LastDay
    \/ call.obj.kind = "SessionBlock" /\ call.day = None

CallDay == IF call.day = None THEN 0 ELSE call.day[1]
Earliest == earliest_dt(call.obj, CallDay)
Latest == latest_dt(call.obj, CallDay)

\* C1: for a valid container and day, a duration longer than latest - earliest
\* gives None without force and exactly earliest with force, whatever the
\* entries of the container are.
C1_TooLong ==
    (call.op = "find_next_start_dt" /\ ValidCall /\ call.duration > Latest - Earliest)
        => /\ ret.status = "ok"
           /\ ret.val = IF call.force THEN <<Earliest>> ELSE <<>>

C1_Witness ==
    /\ call.op = "find_next_start_dt" /\ ValidCall
    /\ call.duration > Latest - Earliest
    /\ call.force
    /\ call.obj.kind = "Event"
    /\ event_day_entries(CallDay) # {}
    /\ ret.val = <<Earliest>>

Anchor ==
    LET found == find_latest_entry_end_dt(call.obj, call.day)
    IN  IF found.val = None THEN Earliest ELSE found.val[1]

\* C2: when the duration fits the window, the result is the anchor (the
\* latest entry end, or earliest without entries) if anchor + duration <=
\* latest, and latest - duration otherwise.
C2_Fits ==
    (call.op = "find_next_start_dt" /\ ValidCall /\ call.duration <= Latest - Earliest)
        => /\ ret.status = "ok"
           /\ ret.val = IF Anchor + call.duration <= Latest
                         THEN <<Anchor>>
                         ELSE <<Latest - call.duration>>

C2_Witness ==
    /\ call.op = "find_next_start_dt" /\ ValidCall
    /\ call.duration <= Latest - Earliest
    /\ call.duration > 0
    /\ Anchor # Earliest
    /\ Anchor + call.duration > Latest
    /\ ret.val = <<Latest - call.duration>>

\* the bounds the specification gives for an event and one of its days
DocEarliest(day) ==
    IF day = FirstDay THEN event.start_dt
    ELSE get_day_start(day, event.tz) + EarliestHour * MinutesPerHour
DocLatest(day) ==
    IF day = LastDay THEN event.end_dt ELSE get_day_end(day, event.tz)

\* C3: for an event and a day in its local date range earliest is
\* event.start_dt on the first day and 08:00 local otherwise, latest is
\* event.end_dt on the last day and the end of the day otherwise; for a
\* session block the bounds are the block entry's start_dt and end_dt.
C3_Bounds ==
    (call.op = "find_next_start_dt" /\ ValidCall)
        => IF call.obj.kind = "Event"
           THEN Earliest = DocEarliest(CallDay) /\ Latest = DocLatest(CallDay)
           ELSE /\ Earliest = entries[call.obj.id].start_dt
                /\ Latest = end_dt(entries[call.obj.id])

ExpectedStatus ==
    IF call.obj.kind = "Event"
    THEN IF call.day = None \/ call.day[1] < FirstDay \/ call.day[1] > LastDay
         THEN "ValueError" ELSE "ok"
    ELSE IF call.obj.kind = "SessionBlock"
    THEN IF call.day # None THEN "ValueError" ELSE "ok"
    ELSE "TypeError"

\* C5: both functions raise a validation failure for an event without a
\* day, an event with a day outside its local date range and a session
\* block with a day, and a type failure for any other container; with
\* force the failure is raised all the same, and nothing is returned.
C5_Failures ==
    (call.op \in {"find_next_start_dt", "find_latest_entry_end_dt"})
        => /\ ret.status = ExpectedStatus
           /\ ret.status # "ok" => ret.val = None

C5_Witness ==
    /\ call.op = "find_next_start_dt"
    /\ call.obj.kind = "Event"
    /\ call.day # None
    /\ call.day[1] > LastDay
    /\ call.force
    /\ call.duration > 2 * MinutesPerDay - 1
    /\ ret.status = "ValueError"

\* the entries find_latest_entry_end_dt is to look at
Looked ==
    IF call.obj.kind = "Event"
    THEN {i \in DOMAIN entries : /\ entries[i].parent = 0
                                 /\ (entries[i].start_dt + event.tz) \div MinutesPerDay = CallDay}
    ELSE {i \in DOMAIN entries : entries[i].parent = call.obj.id}

\* C4 (as amended): find_latest_entry_end_dt returns None when the event has
\* no top-level entry starting on the local day (the block has no child),
\* and otherwise the greatest end_dt among exactly those entries.
C4_LatestEnd ==
    (call.op = "find_latest_entry_end_dt" /\ ValidCall)
        => /\ ret.status = "ok"
           /\ Looked = {} <=> ret.val = None
           /\ Looked # {} =>
                 /\ \E i \in Looked : ret.val = <<end_dt(entries[i])>>
                 /\ \A i \in Looked : end_dt(entries[i]) <= ret.val[1]

C4_Witness ==
    /\ call.op = "find_latest_entry_end_dt" /\ ValidCall
    /\ call.obj.kind = "Event"
    /\ Cardinality(Looked) >= 2
    /\ \E i \in DOMAIN entries \ Looked : end_dt(entries[i]) > ret.val[1]
    /\ \E i \in Looked : end_dt(entries[i]) < ret.val[1]
    /\ nshift > 0

\* C4 (as claimed): the returned end_dt is never outside the container's
\* bounds.
C4_InsideContainer ==
    (call.op = "find_latest_entry_end_dt" /\ ValidCall /\ ret.val # None)
        => IF call.obj.kind = "Event"
           THEN event.start_dt <= ret.val[1] /\ ret.val[1] <= event.end_dt
           ELSE /\ entries[call.obj.id].start_dt <= ret.val[1]
                /\ ret.val[1] <= end_dt(entries[call.obj.id])

(***************************************************************************)
(* Properties of shift_following_entries.  prev is the timetable before    *)
(* the call.                                                               *)
(***************************************************************************)
Shifted == call.op = "shift_following_entries"

\* the siblings of the trigger entry that start at or after its end
FollowingSiblings ==
    {i \in DOMAIN prev \ {call.entry} :
        /\ prev[i].parent = prev[call.entry].parent
        /\ prev[i].start_dt >= prev[call.entry].start_dt + prev[call.entry].duration}

Moved == {i \in DOMAIN entries : entries[i] # prev[i]}

\* C6: without a session, every sibling starting at or after the end of the
\* trigger entry starts shift later and keeps its duration; every other
\* entry (earlier siblings, the trigger, entries of other containers) is
\* unchanged.
C6_ShiftFollowing ==
    (Shifted /\ call.session = 0)
        => /\ DOMAIN entries = DOMAIN prev
           /\ \A i \in DOMAIN entries :
                 IF i \in FollowingSiblings
                 THEN /\ entries[i].start_dt = prev[i].start_dt + call.shift
                      /\ entries[i].duration = prev[i].duration
                      /\ end_dt(entries[i]) = end_dt(prev[i]) + call.shift
                      /\ entries[i] = [prev[i] EXCEPT !.start_dt = entries[i].start_dt]
                 ELSE entries[i] = prev[i]

C6_Witness ==
    /\ Shifted /\ call.session = 0
    /\ prev[call.entry].duration > 0
    /\ \E i \in Moved : prev[i].start_dt = end_dt(prev[call.entry])
    /\ \E i \in DOMAIN entries \ Moved :
          /\ i # call.entry
          /\ prev[i].parent = prev[call.entry].parent
          /\ prev[i].start_dt < end_dt(prev[call.entry])
    /\ \E i \in DOMAIN entries \ Moved :
          /\ prev[i].parent # prev[call.entry].parent
          /\ prev[i].start_dt >= end_dt(prev[call.entry])

\* C7: shift_following_entries returns the list of the entries it shifted,
\* the empty list when no sibling matched.
C7_ReturnsShifted ==
    Shifted
        => /\ ret.status = "ok"
           /\ ~ret.none
           /\ {ret.val[k] : k \in DOMAIN ret.val} = Moved

\* C8: with a session and a top-level trigger entry, only following
\* SESSION_BLOCK siblings of that session are moved.
C8_SessionOnly ==
    (Shifted /\ call.session # 0 /\ prev[call.entry].parent = 0)
        => \A i \in Moved : /\ prev[i].type = "SESSION_BLOCK"
                             /\ prev[i].session = call.session

(***************************************************************************)
(* Properties of get_nested_timetable.                                     *)
(***************************************************************************)
Nested == call.op = "get_nested_timetable"

\* the title key of an entry: (session code, title) for a block, ("", title)
\* for the others
TitleKey(i) ==
    IF entries[i].type = "SESSION_BLOCK"
    THEN <<session_code(entries[i].session), entries[i].title>>
    ELSE <<0, entries[i].title>>

\* the entries of the result, in the order of the query
Unsorted == SelectSeq(call.rows, LAMBDA i : \E k \in DOMAIN ret.val : ret.val[k] = i)

\* C9: consecutive entries of the result have non-decreasing start_dt, for
\* equal start_dt non-decreasing title keys, and for equal start_dt and title
\* key non-increasing end_dt; the result is the one sort by
\* (start_dt, title key, -end_dt) of the same entries.
C9_Sorted ==
    Nested
        => /\ \A k \in 1 .. Len(ret.val) - 1 :
                 LET a == entries[ret.val[k]]
                     b == entries[ret.val[k + 1]]
                     ka == TitleKey(ret.val[k])
                     kb == TitleKey(ret.val[k + 1])
                 IN  /\ a.start_dt <= b.start_dt
                     /\ a.start_dt = b.start_dt => ~tuple_less(kb, ka)
                     /\ (a.start_dt = b.start_dt /\ ka = kb) => end_dt(a) >= end_dt(b)
           /\ ret.val = list_sort(Unsorted,
                                   [i \in DOMAIN entries |->
                                       <<entries[i].start_dt>> \o TitleKey(i)
                                           \o <<0 - end_dt(entries[i])>>],
                                   FALSE)

C9_Witness ==
    /\ Nested
    /\ Len(ret.val) = 3
    /\ ret.val # Unsorted
    /\ \E k \in 1 .. 2 :
          /\ entries[ret.val[k]].start_dt = entries[ret.val[k + 1]].start_dt
          /\ TitleKey(ret.val[k]) = TitleKey(ret.val[k + 1])
          /\ end_dt(entries[ret.val[k]]) > end_dt(entries[ret.val[k + 1]])
          /\ \E m, n \in 1 .. 3 : /\ m < n
                                   /\ Unsorted[m] = ret.val[k + 1]
                                   /\ Unsorted[n] = ret.val[k]
    /\ \E k \in 1 .. 2 :
          /\ entries[ret.val[k]].start_dt = entries[ret.val[k + 1]].start_dt
          /\ tuple_less(TitleKey(ret.val[k]), TitleKey(ret.val[k + 1]))

(***************************************************************************)
(* Properties of get_category_timetable.                                   *)
(***************************************************************************)
Category == call.op = "get_category_timetable"

Range(s) == {s[k] : k \in DOMAIN s}

\* the result of the call, and the result of the same call in the other mode
ThisMode == ret.val
OtherMode ==
    get_category_timetable(call.start_dt, call.end_dt, call.detail_level, call.tz,
                           call.from_categ, ~call.grouped)
GroupedResult == IF call.grouped THEN ThisMode ELSE OtherMode
UngroupedResult == IF call.grouped THEN OtherMode ELSE ThisMode

\* the events a grouped result holds
GroupedEvents ==
    UNION {{p[2] : p \in Range(GroupedResult.events[d])} : d \in DOMAIN GroupedResult.events}
        \cup Range(GroupedResult.ongoing_events)

\* the objects result[id][key] holds, none when the result lacks the key
GroupedObjects(id, key) ==
    IF id \in DOMAIN GroupedResult.details /\ key \in DOMAIN GroupedResult.details[id]
    THEN UNION {{p[2] : p \in Range(GroupedResult.details[id][key][d])} :
                   d \in DOMAIN GroupedResult.details[id][key]}
    ELSE {}
UngroupedObjects(id, key) ==
    IF id \in DOMAIN UngroupedResult.details /\ key \in DOMAIN UngroupedResult.details[id]
    THEN Range(UngroupedResult.details[id][key])
    ELSE {}

\* C10: for the same arguments the grouped and the ungrouped result hold the
\* same events, and for every event id the same blocks, contributions and
\* breaks under the keys 'blocks', 'contribs' and 'breaks'.
C10_SameObjects ==
    Category
        => /\ GroupedEvents = Range(UngroupedResult.events)
           /\ \A id \in DOMAIN db.events :
                 \A key \in {"blocks", "contribs", "breaks"} :
                     GroupedObjects(id, key) = UngroupedObjects(id, key)

(***************************************************************************)
(* Properties of get_time_changes_notifications.                           *)
(***************************************************************************)
Notify == call.op = "get_time_changes_notifications"

\* the changed object is the object of the passed entry, or the object of
\* one of its children
IsSkipped(o) ==
    /\ call.entry # None
    /\ \/ o.kind # "Event" /\ o.id = call.entry[1]
       \/ o.kind # "Event" /\ entries[o.id].parent = call.entry[1]

HasDelta(c) == "start_dt" \in DOMAIN c \/ "end_dt" \in DOMAIN c

\* the changes a message is due for, in the iteration order
Notified ==
    SelectSeq(call.changes,
              LAMBDA p : p[1].kind \in {"Event", "SessionBlock"} /\ ~IsSkipped(p[1]))

\* the message for the change p of an Event or a SessionBlock
ExpectedMessage(p) ==
    LET start == "start_dt" \in DOMAIN p[2]
        new_time == IF start THEN p[2]["start_dt"][2] ELSE p[2]["end_dt"][2]
    IN  [msg |-> IF p[1].kind = "Event"
                 THEN IF start THEN "Event start time changed to {}"
                               ELSE "Event end time changed to {}"
                 ELSE IF start THEN "Session block start time changed to {}"
                               ELSE "Session block end time changed to {}",
         time |-> (new_time + call.tzinfo) % MinutesPerDay]

\* C11: the returned list holds exactly one message per changed Event or
\* SessionBlock that is not skipped (the object of the passed entry and the
\* objects of its children are skipped), the start-time message if a
\* start_dt delta is recorded and the end-time message otherwise, in the
\* iteration order of changes, and nothing for any other object.
C11_Messages ==
    (Notify /\ ret.status = "ok")
        => /\ ~ret.none
           /\ Len(ret.val) = Len(Notified)
           /\ \A k \in 1 .. Len(Notified) : ret.val[k] = ExpectedMessage(Notified[k])

C11_Witness ==
    /\ Notify /\ ret.status = "ok"
    /\ Len(call.changes) = MaxChanges
    /\ Len(ret.val) = 1
    /\ call.entry # None
    /\ \E k \in DOMAIN call.changes :
          /\ call.changes[k][1].kind = "SessionBlock"
          /\ call.changes[k][1].id = call.entry[1]
    /\ \E k \in DOMAIN call.changes :
          /\ call.changes[k][1].kind = "Break"
          /\ entries[call.changes[k][1].id].parent = call.entry[1]
    /\ call.changes[MaxChanges][1].kind = "SessionBlock"
    /\ DOMAIN call.changes[MaxChanges][2] = {"end_dt"}
    /\ ret.val[1].msg = "Session block end time changed to {}"
    /\ ret.val[1].time < EndDelta[2]

\* some changed object that is not skipped has neither delta, and it is of
\* one of the kinds
Incomplete(kinds) ==
    \E k \in DOMAIN call.changes :
        /\ call.changes[k][1].kind \in kinds
        /\ ~IsSkipped(call.changes[k][1])
        /\ ~HasDelta(call.changes[k][2])

\* C12 (as claimed): a validation failure is raised, and nothing returned,
\* whenever a changed object that is not skipped has neither a start_dt nor
\* an end_dt delta, whatever its kind.
C12_RaisesAnyKind ==
    (Notify /\ Incomplete({"Event", "SessionBlock", "Contribution", "Break"}))
        => ret.status = "ValueError" /\ ret.val = None

\* C12 (as amended): a validation failure is raised, and nothing returned,
\* exactly when a changed Event or SessionBlock that is not skipped has
\* neither a start_dt nor an end_dt delta; a Contribution or a Break without
\* a delta is passed over.
C12_RaisesEventOrBlock ==
    Notify
        => IF Incomplete({"Event", "SessionBlock"})
           THEN ret.status = "ValueError" /\ ret.val = None
           ELSE ret.status = "ok" /\ ~ret.none

C12_Witness ==
    /\ Notify
    /\ ret.status = "ValueError" /\ ret.val = None
    /\ Len(call.changes) = MaxChanges
    /\ call.changes[1][1].kind = "Event" /\ HasDelta(call.changes[1][2])
    /\ call.changes[2][1].kind = "Contribution" /\ ~HasDelta(call.changes[2][2])
    /\ ~IsSkipped(call.changes[2][1])
    /\ call.changes[MaxChanges][1].kind = "SessionBlock"
    /\ ~HasDelta(call.changes[MaxChanges][2])

(***************************************************************************)
(* The filter of get_nested_timetable.                                     *)
(***************************************************************************)
\* the four conditions on a top-level entry
OnShownDate(i) ==
    \/ call.show_date = "all"
    \/ isoformat((entries[i].start_dt + event.tz) \div MinutesPerDay) = call.show_date
ContributionShown(i) ==
    entries[i].type = "CONTRIBUTION"
        => /\ call.detail_level \in {"contribution", "all"}
           /\ call.show_session = "all"
BlockShown(i) ==
    (entries[i].type = "SESSION_BLOCK" /\ call.show_session # "all")
        => str_friendly_id(entries[i].session) = call.show_session
Accessible(i) == entries[i].type = "BREAK" \/ entries[i].access

\* C13: the result holds, once each, exactly the top-level entries that are
\* on the shown date, pass the contribution and the session filter and are
\* breaks or accessible; no entry with a parent is in it, and a break on the
\* shown date is in it whatever show_session and the access are.
C13_Filter ==
    Nested
        => /\ Range(ret.val) = {i \in DOMAIN entries :
                                   /\ entries[i].parent = 0
                                   /\ OnShownDate(i)
                                   /\ ContributionShown(i)
                                   /\ BlockShown(i)
                                   /\ Accessible(i)}
           /\ Len(ret.val) = Cardinality(Range(ret.val))
           /\ \A i \in DOMAIN entries :
                 (entries[i].type = "BREAK" /\ entries[i].parent = 0 /\ OnShownDate(i))
                     => i \in Range(ret.val)

C13_Witness ==
    /\ Nested
    /\ call.show_date # "all" /\ call.show_session # "all"
    /\ \E i \in Range(ret.val) : entries[i].type = "BREAK" /\ ~entries[i].access
    /\ \E i \in Range(ret.val) : entries[i].type = "SESSION_BLOCK"
    /\ \E i \in DOMAIN entries \ Range(ret.val) :
          /\ entries[i].type = "CONTRIBUTION" /\ entries[i].parent = 0
          /\ OnShownDate(i) /\ entries[i].access

(***************************************************************************)
(* The events that get detail buckets in get_category_timetable.           *)
(***************************************************************************)
\* the event ids with a 'blocks', 'contribs'/'contributions' or 'breaks'
\* bucket in the result
Bucketed ==
    {id \in DOMAIN ret.val.details :
        DOMAIN ret.val.details[id] \cap {"blocks", "contribs", "contributions", "breaks"} # {}}

\* C14: with detail_level 'session' or 'contribution' every event id with a
\* bucket belongs to an event that passed includible and the from_categ
\* visibility filter; an event rejected by includible has no bucket.
C14_IncludibleOnly ==
    (Category /\ call.detail_level \in {"session", "contribution"})
        => \A id \in Bucketed :
              /\ db.events[id].includible
              /\ call.from_categ => db.events[id].visible

(***************************************************************************)
(* The start find_next_start_dt returns, against the window.               *)
(***************************************************************************)
\* C15: for a valid container and day and a duration that fits the window,
\* a returned start s has earliest <= s and s + duration <= latest,
\* whatever entries the container has, entries ending before earliest
\* included.
C15_InsideWindow ==
    (/\ call.op = "find_next_start_dt" /\ ValidCall
     /\ call.duration <= Latest - Earliest
     /\ ret.status = "ok" /\ ret.val # None)
        => /\ Earliest <= ret.val[1]
           /\ ret.val[1] + call.duration <= Latest

====
